---- MODULE Spec2Model ----
(***************************************************************************)
(* Model of crabpol: the map maker (crabpol/mapmaker.py: construction and  *)
(* its two binners), the TOD loader they consume (gettod, known through    *)
(* its tests and its callers), the IXPE response lookups                   *)
(* (crabpol/ixpe_instrument.py) and the event filter built on them         *)
(* (crabpol/ixpe_filter_events.py).                                        *)
(*                                                                         *)
(* Numbers are integers: signals, weights, coordinates and energies are    *)
(* drawn from small integer sets, and the per-cell Stokes estimate is kept *)
(* as an exact fraction.  The healpix accumulation rounds as float64 does, *)
(* which shows only on signals that span 53 bits.  Sample indices are      *)
(* 0-based as in the code; a sequence element s of the code is element     *)
(* s + 1 of the TLA+ sequence.                                             *)
(***************************************************************************)
EXTENDS Integers, Sequences, FiniteSets, TLC

VARIABLES
    pc,         \* position of the running call
    err,        \* exception raised by the call, "none" if none
    raw,        \* per-detector samples read from storage by the TOD loader
    cc,         \* colour-correction table: factor of each detector
    bgsub,      \* background subtraction: [on, f_bg]
    tod,        \* the TOD bundle returned by the TOD loader
    nside,      \* _bin_tod_healpix: resolution parameter
    isamp,      \* _bin_tod_healpix: loop index
    bmap,       \* _bin_tod_healpix: binned map, [pixel][plane]
    nmap,       \* _bin_tod_healpix: hits map, [pixel][plane]
    grid,       \* _bin_tod_ongrid: what tod_ongrid returned
    npix,       \* _bin_tod_ongrid: cells along one side
    gi,         \* _bin_tod_ongrid: x-bin index of the next cell
    gj,         \* _bin_tod_ongrid: y-bin index of the next cell
    m,          \* _bin_tod_ongrid: the mask of the last cell solved
    gmap,       \* _bin_tod_ongrid: the map, [row][column] -> Stokes triple
    resp,       \* response files: the rows of the rmf, arf and mfact tables
    query,      \* argument of a response lookup: a scalar or a list
    call,       \* the response lookup that was called
    ret,        \* value a response lookup returned
    fs,         \* paths that exist in the file system
    args,       \* arguments of the MapMaker constructor
    mm,         \* the MapMaker object: its attributes
    calls,      \* binner calls made on the MapMaker so far
    callargs,   \* arguments of the running binner call
    mapname,    \* the binner's local mapname
    ongrid,     \* keyword arguments the grid binner passed to tod_ongrid
    events,     \* filter_events: the rows of the events file
    erange,     \* filter_events: [min_energy, max_energy] of the FilterEvents
    filtered    \* filter_events: the columns of the table it writes

loaderVars == <<raw, cc, bgsub>>
hpVars == <<nside, isamp, bmap, nmap>>
gridVars == <<grid, npix, gi, gj, m, gmap>>
lookupVars == <<resp, query, call, ret>>
makerVars == <<fs, args, mm, calls, callargs, mapname, ongrid>>
filterVars == <<events, erange, filtered>>

vars == <<pc, err, raw, cc, bgsub, tod, nside, isamp, bmap, nmap,
          grid, npix, gi, gj, m, gmap, resp, query, call, ret,
          fs, args, mm, calls, callargs, mapname, ongrid,
          events, erange, filtered>>

-----------------------------------------------------------------------------
(* Bounds of the model *)

MaxSamples == 3     \* samples in a TOD
MaxGridSamples == 2 \* samples handed to the grid binner
MaxNpix == 2        \* largest number of cells along one side
MaxQuery == 2       \* values in the list handed to a response lookup
MaxCalls == 2       \* binner calls made on one MapMaker
MaxEvents == 2      \* rows of an events file

(* Program constants *)

Nnz == 3            \* number of Stokes planes, the nnz default

PixVals == {-1, 0, 1}                       \* pixel of a sample; -1 = unseen sky
SigVals == {-1, 2}                          \* signal of a sample
QUVals == {<<1, 0>>, <<-1, 0>>, <<0, 1>>}   \* (qweight, uweight) of a sample
NsideVals == {1}                            \* resolution parameter

Planes == 0 .. (Nnz - 1)

RawSample == [pix : PixVals, qu : {<<1, 0>>, <<0, 1>>}, sig : SigVals]

SeqsUpTo(S, n) == UNION {[1 .. k -> S] : k \in 0 .. n}

\* One detector holding all samples, or two detectors sharing them in order.
RawDataOf(S) ==
    LET flat == SeqsUpTo(S, MaxSamples)
    IN  {<<f>> : f \in flat}
        \cup {<<SubSeq(f, 1, c), SubSeq(f, c + 1, Len(f))>> :
                 <<f, c>> \in {<<g, d>> \in flat \X (0 .. MaxSamples) : d <= Len(g)}}

RawData == RawDataOf(RawSample)

-----------------------------------------------------------------------------
(* MapMaker.__init__ *)

\* None is the empty tuple and a given optional value v is <<v>>; a
\* coordinate pair is a 2-tuple of the decimal literals.  Decimal numbers
\* are kept as the strings of their literals.

None == <<>>

\* utils.get_data_path(subfolder="data/")
GetDataPath == "<package>/data/"

UserPath == "/scratch/npipe"

Paths == {GetDataPath, UserPath}

\* coord = [184.5574, -5.7843] / coord = [83.63304, 22.01449]
TauA(coord_system) ==
    IF coord_system = "galactic" THEN <<"184.5574", "-5.7843">>
    ELSE <<"83.63304", "22.01449">>

UserCoord == <<"10.0", "20.0">>

\* self.planck_freq
planck_freq == [LFI |-> <<30, 40, 70>>, HFI |-> <<100, 143, 217, 353, 545, 857>>]

NoLoader == [kind |-> "unset"]

InjectedLoader == [kind |-> "injected"]

\* The keyword arguments of the constructor; the ones left out of a call
\* take the defaults of the signature.
DefaultArgs ==
    [instrument |-> "HFI", data_path |-> None, alpha |-> "-0.28", coord |-> None,
     coord_system |-> "galactic", withcc |-> FALSE, f_bg |-> None,
     bg_subtraction |-> FALSE, nside |-> 2048, npix |-> 80, pixel_size |-> "1.5",
     split |-> None, tod_loader |-> None]

ArgSets ==
    {[DefaultArgs EXCEPT !.instrument = ins, !.data_path = dp, !.coord = co,
                         !.coord_system = cs, !.bg_subtraction = bg,
                         !.tod_loader = tl] :
        ins \in {"HFI", "LFI", "SPIRE"}, dp \in {None, <<UserPath>>},
        co \in {None, UserCoord}, cs \in {"galactic", "equatorial"},
        bg \in BOOLEAN, tl \in {None, <<InjectedLoader>>}}

\* The attributes assigned before the validation.
StoredFields(a) ==
    [data_path |-> IF a.data_path = None THEN GetDataPath ELSE a.data_path[1],
     alpha |-> a.alpha, instrument |-> a.instrument, coord |-> a.coord,
     coord_system |-> a.coord_system, withcc |-> a.withcc, f_bg |-> a.f_bg,
     bg_subtraction |-> a.bg_subtraction, nside |-> a.nside, npix |-> a.npix,
     split |-> a.split, pixel_size |-> a.pixel_size, planck_freq |-> planck_freq,
     tod_loader |-> NoLoader]

\* The local coord after the defaults: a name of __init__, not an attribute.
LocalCoord(a) ==
    IF a.coord = None /\ a.coord_system \in {"galactic", "equatorial"}
    THEN TauA(a.coord_system) ELSE a.coord

\* The message about the default background indexes planck_freq by instrument.
BgMessageFails(a) ==
    /\ a.bg_subtraction
    /\ a.f_bg = None
    /\ a.instrument \notin DOMAIN planck_freq

\* _validate_data_path: os.path.exists(self.data_path)
ValidateNothing(path, files) == TRUE

ValidateDataPath(path, files) == path \in files

\* Get_TOD(instrument=self.instrument, ..., bg_subtraction=self.bg_subtraction)
NewGetTOD(self) ==
    [kind |-> "Get_TOD", instrument |-> self.instrument, split |-> self.split,
     data_path |-> self.data_path, alpha |-> self.alpha, coord |-> self.coord,
     coord_system |-> self.coord_system, withcc |-> self.withcc,
     f_bg |-> self.f_bg, bg_subtraction |-> self.bg_subtraction]

\* The object a completed __init__ leaves.
Constructed(a) ==
    [StoredFields(a) EXCEPT !.tod_loader =
        IF a.tod_loader # None THEN a.tod_loader[1]
        ELSE NewGetTOD(StoredFields(a))]

FreqVals == {100}
SplitVals == {None, <<"A">>}

\* Arguments of a binner call; pixel_size is None for _bin_tod_healpix, which
\* has no such parameter.
NoCall == [freq |-> 0, split |-> None, pixel_size |-> None]
NoOngrid == [coord |-> None]

\* No MapMaker in this run.
MakerIdle ==
    /\ fs = {}
    /\ args = DefaultArgs
    /\ mm = StoredFields(DefaultArgs)
    /\ calls = 0
    /\ callargs = NoCall
    /\ mapname = ""
    /\ ongrid = NoOngrid

\* A MapMaker built with an injected loader, one binner call running on it.
MakerCalled(pixel_size) ==
    /\ fs = {GetDataPath}
    /\ args = [DefaultArgs EXCEPT !.tod_loader = <<InjectedLoader>>]
    /\ mm = Constructed(args)
    /\ calls = 1
    /\ callargs \in [freq : FreqVals, split : {None}, pixel_size : {pixel_size}]
    /\ mapname = ""
    /\ ongrid = NoOngrid

-----------------------------------------------------------------------------
(* TOD loader (gettod.Get_TOD) *)

RECURSIVE Concat(_)
Concat(ss) == IF ss = <<>> THEN <<>> ELSE Head(ss) \o Concat(Tail(ss))

\* Weight triples [1, qweight, uweight] of one detector, stacked as three rows.
DetWeights(d) ==
    << [s \in 1 .. Len(d) |-> 1],
       [s \in 1 .. Len(d) |-> d[s].qu[1]],
       [s \in 1 .. Len(d) |-> d[s].qu[2]] >>

DetSignal(d) == [s \in 1 .. Len(d) |-> d[s].sig]

DetPixels(d) == [s \in 1 .. Len(d) |-> d[s].pix]

\* assemble_tod: the detectors' arrays concatenated along the sample axis.
AssembleTod(r) ==
    [ signal  |-> Concat([i \in 1 .. Len(r) |-> DetSignal(r[i])]),
      pixels  |-> Concat([i \in 1 .. Len(r) |-> DetPixels(r[i])]),
      weights |-> [k \in 1 .. 3 |->
                      Concat([i \in 1 .. Len(r) |-> DetWeights(r[i])[k]])] ]

NoTod == [signal |-> <<>>, pixels |-> <<>>, weights |-> <<>>]

NoBgsub == [on |-> FALSE, f_bg |-> 0]

\* The loader's inputs when no loader call of their own is modelled.
LoaderIdle ==
    /\ raw = <<>>
    /\ cc = <<>>
    /\ bgsub = NoBgsub

\* The healpix binner's variables when no binner call is modelled.
HealpixIdle ==
    /\ nside = 0
    /\ isamp = 0
    /\ bmap = <<>>
    /\ nmap = <<>>

NoGrid == [x |-> <<>>, y |-> <<>>, xbinning |-> <<>>, ybinning |-> <<>>,
           signal |-> <<>>, pixweights |-> <<>>]

\* The grid binner's variables when no grid call is modelled.
GridIdle ==
    /\ grid = NoGrid
    /\ npix = 0
    /\ gi = 0
    /\ gj = 0
    /\ m = {}
    /\ gmap = <<>>

NoQuery == [kind |-> "none", val |-> <<>>]

\* The response lookups' variables when no lookup call is modelled.
LookupIdle ==
    /\ resp = <<>>
    /\ query = NoQuery
    /\ call = "none"
    /\ ret = <<>>

NoRange == [min_energy |-> 0, max_energy |-> 0]

\* The event filter's variables when no filter_events call is modelled.
FilterIdle ==
    /\ events = <<>>
    /\ erange = NoRange
    /\ filtered = <<>>

\* Values of the loader's own specification: one pixel, one orientation.
TodSample == [pix : {0}, qu : {<<1, 0>>}, sig : {0, 1, 2}]

CCFactors == {2, 3}

\* Colour-correction tables: a factor for some of the detectors 1 and 2.
CCTables == UNION {[D -> CCFactors] : D \in SUBSET {1, 2}}

BgChoices == {NoBgsub, [on |-> TRUE, f_bg |-> 1]}

\* Each sample of a detector's signal scaled by the detector's factor.
ScaleSignalOffset(sig, k) == [s \in 1 .. Len(sig) |-> sig[s] + k]

ScaleSignal(sig, k) == [s \in 1 .. Len(sig) |-> sig[s] * k]

\* The background flux of the frequency channel subtracted from the signal.
SubtractBg(sig, bg) ==
    IF bg.on THEN [s \in 1 .. Len(sig) |-> sig[s] - bg.f_bg] ELSE sig

\* assemble_tod_with_color_correction / tod_withcc: as AssembleTod, each
\* detector's signal scaled by the detector's factor before concatenation.
AssembleTodWithcc(r, table) ==
    [ AssembleTod(r) EXCEPT
        !.signal = Concat([i \in 1 .. Len(r) |->
                              ScaleSignal(DetSignal(r[i]), table[i])]) ]

InitTod ==
    /\ pc = "tod_call"
    /\ err = "none"
    /\ raw \in RawDataOf(TodSample)
    /\ cc \in CCTables
    /\ bgsub \in BgChoices
    /\ tod = NoTod
    /\ HealpixIdle
    /\ GridIdle
    /\ LookupIdle
    /\ MakerIdle
    /\ FilterIdle

\* loader.assemble_tod()
AssembleTodCall ==
    /\ pc = "tod_call"
    /\ tod' = [AssembleTod(raw) EXCEPT !.signal = SubtractBg(@, bgsub)]
    /\ pc' = "assemble_tod_done"
    /\ UNCHANGED <<err, loaderVars, hpVars, gridVars, lookupVars, makerVars, filterVars>>

\* loader.tod_withcc() with every detector in the table.  The order of the
\* scaling and of the background subtraction is not fixed by what is known
\* of the loader: either may come first.
TodWithccCall ==
    /\ pc = "tod_call"
    /\ \A i \in 1 .. Len(raw) : i \in DOMAIN cc
    /\ \/ tod' = [AssembleTodWithcc(raw, cc) EXCEPT !.signal = SubtractBg(@, bgsub)]
       \/ tod' = AssembleTodWithcc(
                    [i \in 1 .. Len(raw) |->
                        [s \in 1 .. Len(raw[i]) |->
                            [raw[i][s] EXCEPT !.sig =
                                SubtractBg(<<@>>, bgsub)[1]]]], cc)
    /\ pc' = "tod_withcc_done"
    /\ UNCHANGED <<err, loaderVars, hpVars, gridVars, lookupVars, makerVars, filterVars>>

\* loader.tod_withcc() with a detector the table does not hold.
TodWithccMissing ==
    /\ pc = "tod_call"
    /\ \E i \in 1 .. Len(raw) : i \notin DOMAIN cc
    /\ pc' = "raised"
    /\ err' = "CalibrationMissingError"
    /\ UNCHANGED <<loaderVars, tod, hpVars, gridVars, lookupVars, makerVars, filterVars>>

NextTod ==
    \/ AssembleTodCall
    \/ TodWithccCall
    \/ TodWithccMissing

SpecTod == InitTod /\ [][NextTod]_vars

-----------------------------------------------------------------------------
(* numpy indexing *)

\* a[i] on an axis of length n: negative indices count from the end; the
\* result is the 0-based position, or -1 when numpy raises IndexError.
NumpyIndex(i, n) ==
    IF 0 <= i /\ i < n THEN i
    ELSE IF -n <= i /\ i < 0 THEN n + i
    ELSE -1

Shape0(a) == Len(a)
Shape1(a) == IF Len(a) = 0 THEN 0 ELSE Len(a[1])

-----------------------------------------------------------------------------
(* MapMaker._bin_tod_healpix *)

NPixels(ns) == 12 * ns * ns

ZeroMap(ns) == [p \in 0 .. (NPixels(ns) - 1) |-> [k \in Planes |-> 0]]

\* pixweights.T[isamp, imap]: <<value>>, or <<>> when the index is out of range.
WeightAtNoT(pixweights, s, k) ==
    IF s < Shape0(pixweights) /\ k < Shape1(pixweights)
    THEN <<pixweights[s + 1][k + 1]>> ELSE <<>>

WeightAt(pixweights, s, k) ==
    IF s < Shape1(pixweights) /\ k < Shape0(pixweights)
    THEN <<pixweights[k + 1][s + 1]>> ELSE <<>>

\* if pix < 0: continue
SkipAlways(pix) == FALSE

SkipSample(pix) == pix < 0

\* The maps are float64 arrays (np.zeros), so a product and a sum are
\* rounded to 53 significant bits, ties to even.  The integer h * Huge + l
\* of the model, with l small, stands for the real number h * 2^53 + l:
\* h = 0 covers the integers below 2^53, which float64 holds exactly, and
\* h # 0 the numbers near a multiple of 2^53, which it holds one in Ulp.
Huge == 1024 * 1024

Hi(n) == (n + Huge \div 2) \div Huge

Lo(n) == n - Hi(n) * Huge

RECURSIVE Pow2(_)
Pow2(t) == IF t = 0 THEN 1 ELSE 2 * Pow2(t - 1)

RECURSIVE Log2(_)
Log2(h) == IF h <= 1 THEN 0 ELSE 1 + Log2(h \div 2)

\* Distance between neighbouring float64 numbers around h * 2^53 + l, h > 0.
Ulp(h, l) ==
    IF l < 0 /\ h = Pow2(Log2(h)) THEN Pow2(Log2(h)) ELSE Pow2(Log2(h) + 1)

\* The multiple of u nearest to l, a tie going to the even multiple.
RoundHalfEven(l, u) ==
    LET q == l \div u
        r == l - q * u
    IN  IF 2 * r < u THEN q * u
        ELSE IF 2 * r > u THEN (q + 1) * u
        ELSE IF q % 2 = 0 THEN q * u ELSE (q + 1) * u

RoundPositive(n) ==
    IF Hi(n) = 0 THEN n
    ELSE Hi(n) * Huge + RoundHalfEven(Lo(n), Ulp(Hi(n), Lo(n)))

\* The float64 nearest to the number n.
Round64(n) == IF n < 0 THEN -RoundPositive(-n) ELSE RoundPositive(n)

\* bmap[pix, imap] += signal[isamp] * w
AccumulateOverwrite(old, sig, w) == sig * w

Accumulate(old, sig, w) == Round64(old + Round64(sig * w))

\* nmap[pix, imap] += 1
CountHitOncePerSample(old, k) == IF k = 0 THEN old + 1 ELSE old

CountHit(old, k) == old + 1

\* The samples' indices are all in range for sample s.
SampleInRange(s) ==
    /\ NumpyIndex(tod.pixels[s + 1], NPixels(nside)) >= 0
    /\ \A k \in Planes : WeightAt(tod.weights, s, k) # <<>>

InitHealpix ==
    /\ pc = "hp_call"
    /\ err = "none"
    /\ LoaderIdle
    /\ tod = NoTod
    /\ nside \in NsideVals
    /\ isamp = 0
    /\ bmap = <<>>
    /\ nmap = <<>>
    /\ GridIdle
    /\ LookupIdle
    /\ MakerCalled(None)
    /\ FilterIdle

\* mapname = "{}GHz_{}hpbinning_{}.fits".format(freq, nside, split), or
\* "{}GHz_{}hpbinning.fits".format(freq, nside) when split is None
HealpixMapName(freq, ns, split) ==
    IF split # None
    THEN ToString(freq) \o "GHz_" \o ToString(ns) \o "hpbinning_" \o split[1] \o ".fits"
    ELSE ToString(freq) \o "GHz_" \o ToString(ns) \o "hpbinning.fits"

\* Path(__name__).resolve().parent / "maps", created when it is missing
MapsDir == "<cwd>/maps"

\* The path and the map name are set, tod = self.tod_loader.tod(...) is one
\* of the TODs of R, and the maps are created as zeros.
HealpixLoadFrom(R) ==
    /\ pc = "hp_call"
    /\ fs' = fs \cup {MapsDir}
    /\ mapname' = HealpixMapName(callargs.freq, nside, callargs.split)
    /\ \E r \in R : tod' = AssembleTod(r)
    /\ bmap' = ZeroMap(nside)
    /\ nmap' = ZeroMap(nside)
    /\ isamp' = 0
    /\ pc' = "hp_loop"
    /\ UNCHANGED <<err, loaderVars, nside, gridVars, lookupVars,
                   args, mm, calls, callargs, ongrid, filterVars>>

HealpixLoad == HealpixLoadFrom(RawData)

\* One pass of the sample loop on a sample that is skipped.
HealpixSkip ==
    /\ pc = "hp_loop"
    /\ isamp < Len(tod.signal)
    /\ SkipSample(tod.pixels[isamp + 1])
    /\ isamp' = isamp + 1
    /\ UNCHANGED <<pc, err, loaderVars, tod, nside, bmap, nmap, gridVars, lookupVars, makerVars, filterVars>>

\* One pass of the sample loop on a sample that is binned (all planes).
HealpixAccumulate ==
    /\ pc = "hp_loop"
    /\ isamp < Len(tod.signal)
    /\ ~SkipSample(tod.pixels[isamp + 1])
    /\ IF SampleInRange(isamp)
       THEN LET pix == NumpyIndex(tod.pixels[isamp + 1], NPixels(nside))
            IN  /\ bmap' = [bmap EXCEPT ![pix] = [k \in Planes |->
                      Accumulate(bmap[pix][k], tod.signal[isamp + 1],
                                 WeightAt(tod.weights, isamp, k)[1])]]
                /\ nmap' = [nmap EXCEPT ![pix] = [k \in Planes |->
                      CountHit(nmap[pix][k], k)]]
                /\ isamp' = isamp + 1
                /\ UNCHANGED <<pc, err>>
       ELSE /\ pc' = "raised"
            /\ err' = "IndexError"
            /\ UNCHANGED <<bmap, nmap, isamp>>
    /\ UNCHANGED <<loaderVars, tod, nside, gridVars, lookupVars, makerVars, filterVars>>

\* The sample loop is over.
HealpixLoopEnd ==
    /\ pc = "hp_loop"
    /\ isamp = Len(tod.signal)
    /\ pc' = "hp_write"
    /\ UNCHANGED <<err, loaderVars, tod, hpVars, gridVars, lookupVars, makerVars, filterVars>>

\* hp.write_map(path + mapname, ...): path is a Path and mapname a str, and
\* Path defines no +, so the argument expression raises TypeError.
HealpixWrite ==
    /\ pc = "hp_write"
    /\ pc' = "raised"
    /\ err' = "TypeError"
    /\ UNCHANGED <<loaderVars, tod, hpVars, gridVars, lookupVars, makerVars, filterVars>>

NextHealpix ==
    \/ HealpixLoad
    \/ HealpixSkip
    \/ HealpixAccumulate
    \/ HealpixLoopEnd
    \/ HealpixWrite

SpecHealpix == InitHealpix /\ [][NextHealpix]_vars

\* TODs of one detector whose signals span the float64 precision: 2^53, 1
\* and -2^53, all with weights (1, 1, 0).
WideRawData ==
    {<<f>> : f \in SeqsUpTo([pix : {-1, 0, 1}, qu : {<<1, 0>>}, sig : {Huge, 1, -Huge}],
                            MaxSamples)}

WideHealpixLoad == HealpixLoadFrom(WideRawData)

NextWide ==
    \/ WideHealpixLoad
    \/ HealpixSkip
    \/ HealpixAccumulate
    \/ HealpixLoopEnd
    \/ HealpixWrite

SpecWide == InitHealpix /\ [][NextWide]_vars

-----------------------------------------------------------------------------
(* TOD loader on a grid (gettod.Get_TOD.tod_ongrid) *)

\* Tangent-plane offsets, in half pixel sizes.
XVals == {-1, 0, 1}
YVals == {-1, 1}

GridSample == [x : XVals, y : YVals, qu : QUVals, sig : SigVals]

\* Edges of n bins one pixel size wide, centred on the target coordinate
\* (in half pixel sizes: -n, -n + 2, ..., n).
BinEdges(n) == [t \in 1 .. (n + 1) |-> 2 * (t - 1) - n]

\* assemble_on_grid / tod_ongrid: (x, y, x_bin_edges, y_bin_edges, signal,
\* weights), the weights stacked as three rows like AssembleTod's.
AssembleOnGrid(d, n) ==
    [ x          |-> [s \in 1 .. Len(d) |-> d[s].x],
      y          |-> [s \in 1 .. Len(d) |-> d[s].y],
      xbinning   |-> BinEdges(n),
      ybinning   |-> BinEdges(n),
      signal     |-> DetSignal(d),
      pixweights |-> DetWeights(d) ]

-----------------------------------------------------------------------------
(* Exact arithmetic for the per-cell solve *)

Abs(a) == IF a < 0 THEN -a ELSE a

RECURSIVE Gcd(_, _)
Gcd(a, b) == IF b = 0 THEN Abs(a) ELSE Gcd(b, a % Abs(b))

RECURSIVE SumTo(_, _)
SumTo(f, n) == IF n = 0 THEN 0 ELSE f[n] + SumTo(f, n - 1)

I3 == 1 .. 3

MatMul(A, B) ==
    [a \in I3 |-> [b \in I3 |-> A[a][1] * B[1][b] + A[a][2] * B[2][b] + A[a][3] * B[3][b]]]

MatVec(A, v) == [a \in I3 |-> A[a][1] * v[1] + A[a][2] * v[2] + A[a][3] * v[3]]

\* c * A + d * I
ScalePlus(A, c, d) ==
    [a \in I3 |-> [b \in I3 |-> c * A[a][b] + (IF a = b THEN d ELSE 0)]]

MatAdd(A, B) == [a \in I3 |-> [b \in I3 |-> A[a][b] + B[a][b]]]

Trace(A) == A[1][1] + A[2][2] + A[3][3]

PrincipalMinors(A) ==
    (A[1][1] * A[2][2] - A[1][2] * A[2][1])
    + (A[1][1] * A[3][3] - A[1][3] * A[3][1])
    + (A[2][2] * A[3][3] - A[2][3] * A[3][2])

Det(A) ==
    A[1][1] * (A[2][2] * A[3][3] - A[2][3] * A[3][2])
    - A[1][2] * (A[2][1] * A[3][3] - A[2][3] * A[3][1])
    + A[1][3] * (A[2][1] * A[3][2] - A[2][2] * A[3][1])

\* The fraction num / den of a 3-vector in lowest terms, den > 0.
Fraction(num, den) ==
    LET g == Gcd(Gcd(Gcd(num[1], num[2]), num[3]), den)
        sg == IF den < 0 THEN -g ELSE g
    IN  [num |-> [a \in I3 |-> num[a] \div sg], den |-> den \div sg]

ZeroStokes == [num |-> [a \in I3 |-> 0], den |-> 1]

\* pinv(B) @ v for a symmetric positive semi-definite B and v in its range:
\* with the characteristic polynomial x^3 - Trace x^2 + PrincipalMinors x - Det,
\* the pseudo-inverse on the range of B is the polynomial in B given by the
\* last non-zero coefficient (rank 3, 2, 1 or 0).
PinvApply(B, v) ==
    IF Det(B) # 0
    THEN Fraction(MatVec(MatAdd(MatMul(B, B), ScalePlus(B, -Trace(B), PrincipalMinors(B))), v),
                  Det(B))
    ELSE IF PrincipalMinors(B) # 0
    THEN Fraction(MatVec(ScalePlus(B, -1, Trace(B)), v), PrincipalMinors(B))
    ELSE IF Trace(B) # 0
    THEN Fraction(v, Trace(B))
    ELSE ZeroStokes

-----------------------------------------------------------------------------
(* MapMaker._bin_tod_ongrid *)

GridLen(g) == Len(g.signal)

\* m = np.logical_and(x > xbinning[i], x < xbinning[i + 1])
XMask(g, i) ==
    {s \in 1 .. GridLen(g) : g.x[s] > g.xbinning[i + 1] /\ g.x[s] < g.xbinning[i + 2]}

\* yx = y * m: y where the x mask holds, 0 elsewhere
YX(g, i, s) == IF s \in XMask(g, i) THEN g.y[s] ELSE 0

\* m = np.logical_and(np.abs(yx) > ybinning[j], yx < ybinning[j + 1])
CellMask(g, i, j) ==
    {s \in 1 .. GridLen(g) :
        Abs(YX(g, i, s)) > g.ybinning[j + 1] /\ YX(g, i, s) < g.ybinning[j + 2]}

\* PTP = pixweights[:, m] @ pixweights[:, m].T
PTP(g, mask) ==
    [a \in I3 |-> [b \in I3 |->
        SumTo([s \in 1 .. GridLen(g) |->
                  IF s \in mask THEN g.pixweights[a][s] * g.pixweights[b][s] ELSE 0],
              GridLen(g))]]

\* pixweights[:, m] @ signal[m]
PTs(g, mask) ==
    [a \in I3 |->
        SumTo([s \in 1 .. GridLen(g) |->
                  IF s \in mask THEN g.pixweights[a][s] * g.signal[s] ELSE 0],
              GridLen(g))]

\* mp = pinv(PTP) @ pixweights[:, m] @ signal[m]
SolveCell(g, mask) == PinvApply(PTP(g, mask), PTs(g, mask))

\* The Stokes estimate the binner stores for x-bin i, y-bin j.
CellEstimate(g, i, j) == SolveCell(g, CellMask(g, i, j))

\* bmap = np.zeros((npix, npix, 3))
ZeroGridMap(n) == [r \in 0 .. (n - 1) |-> [c \in 0 .. (n - 1) |-> ZeroStokes]]

InitGrid ==
    /\ pc = "grid_call"
    /\ err = "none"
    /\ LoaderIdle
    /\ tod = NoTod
    /\ HealpixIdle
    /\ grid = NoGrid
    /\ npix \in 1 .. MaxNpix
    /\ gi = 0
    /\ gj = 0
    /\ m = {}
    /\ gmap = <<>>
    /\ LookupIdle
    /\ MakerCalled(<<"1.5">>)
    /\ FilterIdle

\* mapname = "{}GHz_{}pix_{}_grid.fits".format(freq, npix, split), or
\* "{}GHz_{}pix_grid.fits".format(freq, npix) when split is None
GridMapName(freq, n, split) ==
    IF split # None
    THEN ToString(freq) \o "GHz_" \o ToString(n) \o "pix_" \o split[1] \o "_grid.fits"
    ELSE ToString(freq) \o "GHz_" \o ToString(n) \o "pix_grid.fits"

\* The keyword arguments of self.tod_loader.tod_ongrid(...)
OngridArgs(self, freq, n, pixel_size, split) ==
    [coord |-> self.coord, freq |-> freq, npix |-> n, pixsize |-> pixel_size,
     coord_system |-> self.coord_system, split |-> split]

\* The path and the map name are set, x, y, xbinning, ybinning, signal,
\* pixweights = self.tod_loader.tod_ongrid(...) come from one of the sample
\* lists of D, and the map is created as zeros.
GridLoadFrom(D) ==
    /\ pc = "grid_call"
    /\ fs' = fs \cup {MapsDir}
    /\ mapname' = GridMapName(callargs.freq, npix, callargs.split)
    /\ ongrid' = OngridArgs(mm, callargs.freq, npix, callargs.pixel_size, callargs.split)
    /\ \E d \in D : grid' = AssembleOnGrid(d, npix)
    /\ gmap' = ZeroGridMap(npix)
    /\ gi' = 0
    /\ gj' = 0
    /\ pc' = "grid_loop"
    /\ UNCHANGED <<err, loaderVars, tod, hpVars, npix, m, lookupVars,
                   args, mm, calls, callargs, filterVars>>

GridLoad == GridLoadFrom(SeqsUpTo(GridSample, MaxGridSamples))

\* One pass of the inner loop: cell (gi, gj) is masked, solved and stored.
\* yx = y * m is a new array; the pass below would be y *= m.
GridCellInPlace ==
    /\ pc = "grid_loop"
    /\ gi < npix
    /\ m' = CellMask(grid, gi, gj)
    /\ gmap' = [gmap EXCEPT ![gj][gi] = SolveCell(grid, m')]
    /\ grid' = [grid EXCEPT !.y = [s \in 1 .. GridLen(grid) |-> YX(grid, gi, s)]]
    /\ IF gj + 1 < npix
       THEN gj' = gj + 1 /\ gi' = gi
       ELSE gj' = 0 /\ gi' = gi + 1
    /\ UNCHANGED <<pc, err, loaderVars, tod, hpVars, npix, lookupVars, makerVars, filterVars>>

GridCell ==
    /\ pc = "grid_loop"
    /\ gi < npix
    /\ m' = CellMask(grid, gi, gj)
    /\ gmap' = [gmap EXCEPT ![gj][gi] = SolveCell(grid, m')]
    /\ IF gj + 1 < npix
       THEN gj' = gj + 1 /\ gi' = gi
       ELSE gj' = 0 /\ gi' = gi + 1
    /\ UNCHANGED <<pc, err, loaderVars, tod, hpVars, grid, npix, lookupVars, makerVars, filterVars>>

\* Both loops are over.
GridLoopEnd ==
    /\ pc = "grid_loop"
    /\ gi = npix
    /\ pc' = "grid_write"
    /\ UNCHANGED <<err, loaderVars, tod, hpVars, gridVars, lookupVars, makerVars, filterVars>>

\* bmap.T of the (npix, npix, 3) array: numpy reverses all three axes, so
\* element [k][a][b] of the result is element [b][a][k] of bmap.
Transposed(bm, n) ==
    [k \in Planes |-> [a \in 0 .. (n - 1) |-> [b \in 0 .. (n - 1) |->
        [num |-> bm[b][a].num[k + 1], den |-> bm[b][a].den]]]]

\* utils.create_fits(path + mapname, bmap.T): path is a Path and mapname a
\* str, and Path defines no +, so the argument expression raises TypeError.
GridWrite ==
    /\ pc = "grid_write"
    /\ pc' = "raised"
    /\ err' = "TypeError"
    /\ UNCHANGED <<loaderVars, tod, hpVars, gridVars, lookupVars, makerVars, filterVars>>

NextGrid ==
    \/ GridLoad
    \/ GridCell
    \/ GridLoopEnd
    \/ GridWrite

SpecGrid == InitGrid /\ [][NextGrid]_vars

-----------------------------------------------------------------------------
(* A MapMaker: construction, then binner calls on the object *)

\* The data the loader of a constructed MapMaker returns: at most one sample.
MakerRawData == {<<f>> : f \in SeqsUpTo([pix : PixVals, qu : {<<1, 0>>}, sig : {2}], 1)}

MakerGridData == SeqsUpTo([x : XVals, y : YVals, qu : {<<1, 0>>}, sig : {2}], 1)

\* Before __init__ runs the object has no attribute.
NoMaker == [tod_loader |-> NoLoader]

InitMaker ==
    /\ pc = "new"
    /\ err = "none"
    /\ LoaderIdle
    /\ tod = NoTod
    /\ HealpixIdle
    /\ GridIdle
    /\ LookupIdle
    /\ fs \in SUBSET Paths
    /\ args \in ArgSets
    /\ mm = NoMaker
    /\ calls = 0
    /\ callargs = NoCall
    /\ mapname = ""
    /\ ongrid = NoOngrid
    /\ FilterIdle

\* MapMaker(**args): the whole of __init__.
Construct ==
    /\ pc = "new"
    /\ IF BgMessageFails(args)
       THEN /\ mm' = StoredFields(args)
            /\ pc' = "raised"
            /\ err' = "KeyError"
       ELSE IF ~ValidateDataPath(StoredFields(args).data_path, fs)
       THEN /\ mm' = StoredFields(args)
            /\ pc' = "raised"
            /\ err' = "FileNotFoundError"
       ELSE /\ mm' = Constructed(args)
            /\ pc' = "ready"
            /\ err' = "none"
    /\ UNCHANGED <<loaderVars, tod, hpVars, gridVars, lookupVars,
                   fs, args, calls, callargs, mapname, ongrid, filterVars>>

\* A binner can be called on an object whose construction completed, when no
\* other call is running.
CanCall ==
    /\ pc \in {"ready", "raised"}
    /\ mm.tod_loader # NoLoader
    /\ calls < MaxCalls

\* mm._bin_tod_healpix(freq, nside, split=split): the call starts, its
\* locals are fresh.
CallHealpix ==
    /\ CanCall
    /\ \E c \in [freq : FreqVals, split : SplitVals, pixel_size : {None}] :
           callargs' = c
    /\ nside' \in NsideVals
    /\ isamp' = 0
    /\ bmap' = <<>>
    /\ nmap' = <<>>
    /\ tod' = NoTod
    /\ grid' = NoGrid /\ npix' = 0 /\ gi' = 0 /\ gj' = 0 /\ m' = {} /\ gmap' = <<>>
    /\ mapname' = ""
    /\ ongrid' = NoOngrid
    /\ calls' = calls + 1
    /\ pc' = "hp_call"
    /\ err' = "none"
    /\ UNCHANGED <<loaderVars, lookupVars, fs, args, mm, filterVars>>

\* mm._bin_tod_ongrid(freq, npix, pixel_size, split=split): the call starts,
\* its locals are fresh.
CallGrid ==
    /\ CanCall
    /\ \E c \in [freq : FreqVals, split : SplitVals, pixel_size : {<<"1.5">>}] :
           callargs' = c
    /\ npix' \in 1 .. MaxNpix
    /\ grid' = NoGrid /\ gi' = 0 /\ gj' = 0 /\ m' = {} /\ gmap' = <<>>
    /\ nside' = 0 /\ isamp' = 0 /\ bmap' = <<>> /\ nmap' = <<>>
    /\ tod' = NoTod
    /\ mapname' = ""
    /\ ongrid' = NoOngrid
    /\ calls' = calls + 1
    /\ pc' = "grid_call"
    /\ err' = "none"
    /\ UNCHANGED <<loaderVars, lookupVars, fs, args, mm, filterVars>>

MakerHealpixLoad == HealpixLoadFrom(MakerRawData)

MakerGridLoad == GridLoadFrom(MakerGridData)

NextMaker ==
    \/ Construct
    \/ CallHealpix
    \/ CallGrid
    \/ MakerHealpixLoad
    \/ HealpixSkip
    \/ HealpixAccumulate
    \/ HealpixLoopEnd
    \/ HealpixWrite
    \/ MakerGridLoad
    \/ GridCell
    \/ GridLoopEnd
    \/ GridWrite

SpecMaker == InitMaker /\ [][NextMaker]_vars

-----------------------------------------------------------------------------
(* Instrument response lookups (crabpol/ixpe_instrument.py) *)

\* Energies are in units of 0.5 keV, so that bin centres stay integers.
RmfTables ==
    { << [CHANNEL |-> 0, E_MIN |-> 1, E_MAX |-> 3],
         [CHANNEL |-> 1, E_MIN |-> 3, E_MAX |-> 5],
         [CHANNEL |-> 2, E_MIN |-> 5, E_MAX |-> 7] >>,
      << [CHANNEL |-> 2, E_MIN |-> 1, E_MAX |-> 3],
         [CHANNEL |-> 4, E_MIN |-> 3, E_MAX |-> 5] >> }

ArfTable ==
    << [ENERG_LO |-> 1, ENERG_HI |-> 3, SPECRESP |-> 10],
       [ENERG_LO |-> 3, ENERG_HI |-> 5, SPECRESP |-> 20],
       [ENERG_LO |-> 5, ENERG_HI |-> 7, SPECRESP |-> 30] >>

MfactTable ==
    << [ENERG_LO |-> 1, ENERG_HI |-> 3, SPECRESP |-> 15],
       [ENERG_LO |-> 3, ENERG_HI |-> 5, SPECRESP |-> 25],
       [ENERG_LO |-> 5, ENERG_HI |-> 7, SPECRESP |-> 35] >>

QueryVals == {0, 2, 4, 5}

Queries ==
    [kind : {"scalar"}, val : QueryVals]
    \cup [kind : {"list"}, val : SeqsUpTo(QueryVals, MaxQuery)]

\* (lo + hi) / 2.0
BinCentre(lo, hi) == (lo + hi) \div 2

\* vals[k] with (k,) = np.where(keys == i): the values of the rows whose key
\* equals i, in row order; empty when no row matches.
RECURSIVE RowsWhere(_, _, _)
RowsWhere(keys, vals, i) ==
    IF keys = <<>> THEN <<>>
    ELSE (IF Head(keys) = i THEN <<Head(vals)>> ELSE <<>>)
         \o RowsWhere(Tail(keys), Tail(vals), i)

\* The body shared by the three lookups, from `if len(x) > 0:` on: the
\* outcomes [pc, err, ret] the call can end in.
LookupOutcomes(keys, vals, q) ==
    IF q.kind = "scalar"
    THEN \* len() of a number
         {[pc |-> "raised", err |-> "TypeError", ret |-> <<>>]}
    ELSE IF Len(q.val) > 0
    THEN {[pc |-> "returned", err |-> "none",
           ret |-> [n \in 1 .. Len(q.val) |-> RowsWhere(keys, vals, q.val[n])]]}
    ELSE \* vals[keys == []]: the comparison of arrays of different lengths
         \* is False in older numpy (an empty selection) and raises in newer
         {[pc |-> "returned", err |-> "none", ret |-> <<>>],
          [pc |-> "raised", err |-> "ValueError", ret |-> <<>>]}

\* echan and the channel column of the rmf table
RmfChannels(r) == [n \in 1 .. Len(r) |-> r[n].CHANNEL]
RmfEchan(r) == [n \in 1 .. Len(r) |-> BinCentre(r[n].E_MIN, r[n].E_MAX)]

\* echan and the response column of an arf or mfact table
RespEchan(r) == [n \in 1 .. Len(r) |-> BinCentre(r[n].ENERG_LO, r[n].ENERG_HI)]
RespValues(r) == [n \in 1 .. Len(r) |-> r[n].SPECRESP]

InitLookup ==
    /\ pc = "lookup_call"
    /\ err = "none"
    /\ LoaderIdle
    /\ tod = NoTod
    /\ HealpixIdle
    /\ GridIdle
    /\ resp \in [rmf : RmfTables, arf : {ArfTable}, mfact : {MfactTable}]
    /\ query \in Queries
    /\ call = "none"
    /\ ret = <<>>
    /\ MakerIdle
    /\ FilterIdle

Finish(name, out) ==
    /\ call' = name
    /\ pc' = out.pc
    /\ err' = out.err
    /\ ret' = out.ret
    /\ UNCHANGED <<loaderVars, tod, hpVars, gridVars, resp, query, makerVars, filterVars>>

chan_to_e ==
    /\ pc = "lookup_call"
    /\ \E out \in LookupOutcomes(RmfChannels(resp.rmf), RmfEchan(resp.rmf), query) :
           Finish("chan_to_e", out)

e_to_aeff ==
    /\ pc = "lookup_call"
    /\ \E out \in LookupOutcomes(RespEchan(resp.arf), RespValues(resp.arf), query) :
           Finish("e_to_aeff", out)

e_to_modf ==
    /\ pc = "lookup_call"
    /\ \E out \in LookupOutcomes(RespEchan(resp.mfact), RespValues(resp.mfact), query) :
           Finish("e_to_modf", out)

NextLookup ==
    \/ chan_to_e
    \/ e_to_aeff
    \/ e_to_modf

SpecLookup == InitLookup /\ [][NextLookup]_vars

-----------------------------------------------------------------------------
(* FilterEvents.filter_events (crabpol/ixpe_filter_events.py) *)

\* A row of the events table: the six columns filter_events reads.
EventVals ==
    {[PI |-> p, Q |-> t, U |-> t + 10, X |-> t + 20, Y |-> t + 30, W_MOM |-> t + 40] :
        p \in {0, 1, 2, 4}, t \in {1, 2}}

\* min_energy and max_energy in units of 0.5 keV: the defaults 2.0 and 8.0,
\* and a range whose upper bound is a bin centre.
EnergyRanges ==
    {[min_energy |-> 4, max_energy |-> 16], [min_energy |-> 2, max_energy |-> 4]}

\* hdul[1].data[name]
EventColumn(ev, name) == [n \in 1 .. Len(ev) |-> ev[n][name]]

\* a[mask] for a boolean mask over the first axis
RECURSIVE Compress(_, _)
Compress(a, mask) ==
    IF a = <<>> THEN <<>>
    ELSE (IF Head(mask) THEN <<Head(a)>> ELSE <<>>) \o Compress(Tail(a), Tail(mask))

\* e_to_aeff / e_to_modf called with what chan_to_e returned, a list of
\* arrays: the outcomes [pc, err, ret].  An array of one energy compares
\* with echan as a number does.  An empty array cannot be broadcast against
\* echan: the comparison is False in older numpy (no row selected) and
\* raises in newer.  The empty result of chan_to_e (older numpy) is the
\* 2-D array echan[False] of shape (0, width): when echan here has width
\* rows, or one of the two lengths is 1, the comparison is 2-D and indexing
\* the 1-D response column with it raises IndexError; otherwise the
\* comparison is False again and the result is empty.
ArrayLookupOutcomes(keys, vals, rows, width) ==
    IF Len(rows) = 0
    THEN IF Len(keys) = width \/ Len(keys) = 1 \/ width = 1
         THEN {[pc |-> "raised", err |-> "IndexError", ret |-> <<>>]}
         ELSE {[pc |-> "returned", err |-> "none", ret |-> <<>>]}
    ELSE {[pc |-> "returned", err |-> "none",
           ret |-> [n \in 1 .. Len(rows) |->
                      IF Len(rows[n]) = 1 THEN RowsWhere(keys, vals, rows[n][1])
                      ELSE <<>>]]}
         \cup (IF \E n \in 1 .. Len(rows) : Len(rows[n]) # 1
               THEN {[pc |-> "raised", err |-> "ValueError", ret |-> <<>>]}
               ELSE {})

\* np.array(rows) is a 2-D array when all rows have one length.
Ragged(rows) == \E a, b \in 1 .. Len(rows) : Len(rows[a]) # Len(rows[b])

\* From mask = np.logical_and(...) to the nine columns: the outcomes
\* [pc, err, ret] for the arrays es, aeff and modf.
MaskOutcomes(ev, range, es, aeff, modf) ==
    IF Len(es) = 0
    THEN \* no rows: every selection is empty
         {[pc |-> "returned", err |-> "none",
           ret |-> [c \in {"PI", "E", "X", "Y", "Q", "U", "W_MOM", "Aeff", "Modf"} |-> <<>>]]}
    ELSE IF Ragged(es) \/ Ragged(aeff) \/ Ragged(modf)
    THEN \* np.array raises on ragged rows in newer numpy; the object array
         \* of older numpy is 1-D and mask[:, 0] raises
         {[pc |-> "raised", err |-> "ValueError", ret |-> <<>>],
          [pc |-> "raised", err |-> "IndexError", ret |-> <<>>]}
    ELSE IF Len(es[1]) = 0
    THEN \* mask has no column 0
         {[pc |-> "raised", err |-> "IndexError", ret |-> <<>>]}
    ELSE LET mask == [n \in 1 .. Len(es) |->
                         \A c \in 1 .. Len(es[n]) :
                             es[n][c] >= range.min_energy /\ es[n][c] <= range.max_energy]
             mask0 == [n \in 1 .. Len(es) |->
                          es[n][1] >= range.min_energy /\ es[n][1] <= range.max_energy]
         IN  {[pc |-> "returned", err |-> "none",
               ret |-> [PI |-> Compress(EventColumn(ev, "PI"), mask0),
                        E |-> Concat(Compress(es, mask)),
                        X |-> Compress(EventColumn(ev, "X"), mask0),
                        Y |-> Compress(EventColumn(ev, "Y"), mask0),
                        Q |-> Compress(EventColumn(ev, "Q"), mask0),
                        U |-> Compress(EventColumn(ev, "U"), mask0),
                        W_MOM |-> Compress(EventColumn(ev, "W_MOM"), mask0),
                        Aeff |-> Compress(aeff, mask0),
                        Modf |-> Compress(modf, mask0)]]}

\* The outcomes of filter_events once es = chan_to_e(PI) has ended in eo.
AfterChanToE(ev, r, range, eo) ==
    IF eo.pc = "raised" THEN {eo}
    ELSE UNION {
        IF ao.pc = "raised" THEN {ao}
        ELSE UNION {
            IF mo.pc = "raised" THEN {mo}
            ELSE MaskOutcomes(ev, range, eo.ret, ao.ret, mo.ret) :
            mo \in ArrayLookupOutcomes(RespEchan(r.mfact), RespValues(r.mfact),
                                       eo.ret, Len(r.rmf))} :
        ao \in ArrayLookupOutcomes(RespEchan(r.arf), RespValues(r.arf),
                                   eo.ret, Len(r.rmf))}

\* The outcomes [pc, err, ret] of filter_events on the events ev.
FilterOutcomes(ev, r, range) ==
    UNION {AfterChanToE(ev, r, range, eo) :
              eo \in LookupOutcomes(RmfChannels(r.rmf), RmfEchan(r.rmf),
                                    [kind |-> "list", val |-> EventColumn(ev, "PI")])}

InitFilter ==
    /\ pc = "filter_call"
    /\ err = "none"
    /\ LoaderIdle
    /\ tod = NoTod
    /\ HealpixIdle
    /\ GridIdle
    /\ resp \in [rmf : RmfTables, arf : {ArfTable}, mfact : {MfactTable}]
    /\ query = NoQuery
    /\ call = "none"
    /\ ret = <<>>
    /\ MakerIdle
    /\ events \in SeqsUpTo(EventVals, MaxEvents)
    /\ erange \in EnergyRanges
    /\ filtered = <<>>

filter_events ==
    /\ pc = "filter_call"
    /\ \E out \in FilterOutcomes(events, resp, erange) :
           /\ pc' = out.pc
           /\ err' = out.err
           /\ filtered' = out.ret
    /\ UNCHANGED <<loaderVars, tod, hpVars, gridVars, lookupVars, makerVars,
                   events, erange>>

NextFilter == filter_events

SpecFilter == InitFilter /\ [][NextFilter]_vars

-----------------------------------------------------------------------------
(* Properties of _bin_tod_healpix *)

NSamp == Len(tod.signal)

\* The maps exist and the first isamp samples have been processed.
HealpixBinning == pc \in {"hp_loop", "hp_write"} \/ (pc = "raised" /\ err = "TypeError")

\* The sample loop has run to its end.
HealpixBinned == pc = "hp_write" \/ (pc = "raised" /\ err = "TypeError")

\* Sum of signal[s] * weights[s][k] over the first n samples pointing at pixel p.
RECURSIVE ContribSum(_, _, _)
ContribSum(p, k, n) ==
    IF n = 0 THEN 0
    ELSE ContribSum(p, k, n - 1)
         + (IF tod.pixels[n] = p THEN tod.signal[n] * tod.weights[k + 1][n] ELSE 0)

\* Number of the first n samples pointing at pixel p.
HitCount(p, n) == Cardinality({s \in 1 .. n : tod.pixels[s] = p})

\* Number of the first n samples with a non-negative pixel.
SeenCount(n) == Cardinality({s \in 1 .. n : tod.pixels[s] >= 0})

RECURSIVE PixelHits(_, _)
PixelHits(row, k) == IF k < 0 THEN 0 ELSE row[k] + PixelHits(row, k - 1)

RECURSIVE TotalHits(_, _)
TotalHits(hits, p) ==
    IF p < 0 THEN 0 ELSE PixelHits(hits[p], Nnz - 1) + TotalHits(hits, p - 1)

\* C1: when the sample loop is over, binned_map[p][k] is the sum of
\* signal[s] * weight[s][k] over exactly the samples s with pixels[s] = p,
\* hits_map[p][k] is the number of those samples, and a pixel no sample
\* points at is 0 in both maps.
C1_BinnedMapIsPerPixelSum ==
    HealpixBinned =>
        \A p \in 0 .. (NPixels(nside) - 1) : \A k \in Planes :
            /\ bmap[p][k] = ContribSum(p, k, NSamp)
            /\ nmap[p][k] = HitCount(p, NSamp)
            /\ (HitCount(p, NSamp) = 0 => bmap[p][k] = 0 /\ nmap[p][k] = 0)

\* A finished run in which one pixel got two samples with a non-zero sum,
\* another sample was unseen sky, and some pixel got nothing.
C1_Witness ==
    /\ HealpixBinned
    /\ \E p \in 0 .. (NPixels(nside) - 1) : HitCount(p, NSamp) = 2 /\ bmap[p][1] # 0
    /\ \E s \in 1 .. NSamp : tod.pixels[s] < 0
    /\ \E p \in 0 .. (NPixels(nside) - 1) : HitCount(p, NSamp) = 0

\* C2: a pass of the sample loop over a sample with a negative pixel changes
\* no entry of binned_map or hits_map and moves on to the next sample.
C2_NegativePixelSkipped ==
    [][ (pc = "hp_loop" /\ isamp < NSamp /\ tod.pixels[isamp + 1] < 0)
            => (bmap' = bmap /\ nmap' = nmap /\ isamp' = isamp + 1 /\ pc' = pc) ]_vars

\* A negative-pixel sample has just been passed over, between two binned ones.
C2_Witness ==
    /\ pc = "hp_loop"
    /\ isamp = 2
    /\ NSamp = 3
    /\ tod.pixels[1] >= 0
    /\ tod.pixels[2] < 0
    /\ tod.pixels[3] >= 0
    /\ \E p \in 0 .. (NPixels(nside) - 1) : nmap[p][0] = 1

\* C3: after each processed prefix of the TOD, and so at the end, the sum of
\* hits_map over all pixels and planes is 3 times the number of samples of
\* the prefix with a non-negative pixel.
C3_HitsSumIsThreePerSeenSample ==
    HealpixBinning => TotalHits(nmap, NPixels(nside) - 1) = 3 * SeenCount(isamp)

\* A finished run with two seen samples and one unseen.
C3_Witness ==
    /\ HealpixBinned
    /\ SeenCount(NSamp) = 2
    /\ NSamp = 3
    /\ TotalHits(nmap, NPixels(nside) - 1) = 6

\* C7 as amended: the TOD the loader returns has signal.length =
\* pixels.length = weights.shape[1], weights.shape[0] = 3 (the sample axis
\* of the weights array is its second axis), and the binner, which reads the
\* weights transposed, never indexes outside them.
C7_SampleAxisIsSecond ==
    pc # "hp_call" =>
        /\ Len(tod.pixels) = NSamp
        /\ Shape1(tod.weights) = NSamp
        /\ Shape0(tod.weights) = 3
        /\ \A k \in 1 .. 3 : Len(tod.weights[k]) = NSamp
        /\ err # "IndexError"

\* A binned TOD of two samples.
C7_Witness ==
    /\ HealpixBinned
    /\ NSamp = 2
    /\ \E p \in 0 .. (NPixels(nside) - 1) : nmap[p][2] > 0

\* C7 as stated: the first axis of the weights array is the sample axis and
\* the second has length 3.
C7_SampleAxisIsFirst ==
    pc # "hp_call" =>
        /\ Len(tod.pixels) = NSamp
        /\ (NSamp > 0 => Shape0(tod.weights) = NSamp /\ Shape1(tod.weights) = 3)

-----------------------------------------------------------------------------
(* Properties of the TOD loader *)

\* C8: with one detector of factor k and background subtraction disabled,
\* the colour-corrected TOD's signal is the loaded signal times k, element
\* by element and in the same order.
C8_ColorCorrectionScalesSignal ==
    (pc = "tod_withcc_done" /\ Len(raw) = 1 /\ ~bgsub.on) =>
        /\ Len(tod.signal) = Len(raw[1])
        /\ \A s \in 1 .. Len(raw[1]) : tod.signal[s] = raw[1][s].sig * cc[1]

\* The fixture of test_tod_withcc: signal 0, 1, 2 and factor 2.
C8_Witness ==
    /\ pc = "tod_withcc_done"
    /\ Len(raw) = 1
    /\ ~bgsub.on
    /\ DetSignal(raw[1]) = <<0, 1, 2>>
    /\ cc[1] = 2
    /\ tod.signal = <<0, 2, 4>>

-----------------------------------------------------------------------------
(* Properties of _bin_tod_ongrid *)

\* Some cell has been solved, and m is its mask.
GridSolved == pc \in {"grid_loop", "grid_write", "raised"} /\ (gi > 0 \/ gj > 0)

\* The loops of the grid binner have run to their end.
GridBinned == pc = "grid_write" \/ (pc = "raised" /\ err = "TypeError" /\ npix > 0)

\* Indices of the cell solved last.
LastI == IF gj > 0 THEN gi ELSE gi - 1
LastJ == IF gj > 0 THEN gj - 1 ELSE npix - 1

\* The samples inside cell (i, j), lower edges inclusive, upper exclusive.
HalfOpenMembers(g, i, j) ==
    {s \in 1 .. GridLen(g) :
        /\ g.xbinning[i + 1] <= g.x[s] /\ g.x[s] < g.xbinning[i + 2]
        /\ g.ybinning[j + 1] <= g.y[s] /\ g.y[s] < g.ybinning[j + 2]}

\* The grid data with the signal of sample s replaced by v.
Perturbed(g, s, v) == [g EXCEPT !.signal[s] = v]

\* C4: the samples used for the solve of cell (i, j) are exactly those with
\* xbinning[i] <= x < xbinning[i+1] and ybinning[j] <= y < ybinning[j+1].
C4_CellMembershipHalfOpen ==
    GridSolved => m = HalfOpenMembers(grid, LastI, LastJ)

\* C5: changing the signal of one sample leaves the Stokes estimate of every
\* cell unchanged, except the cell whose x and y intervals contain the sample.
C5_GridBinningCellLocal ==
    GridBinned =>
        \A s \in 1 .. GridLen(grid) : \A v \in SigVals :
            \A i \in 0 .. (npix - 1) : \A j \in 0 .. (npix - 1) :
                s \notin HalfOpenMembers(grid, i, j)
                    => CellEstimate(Perturbed(grid, s, v), i, j) = gmap[j][i]

\* C6: on an empty TOD the grid binner finishes without error, with an
\* all-zero npix x npix x 3 map and an all-zero hits map of the same shape.
C6_EmptyTodGivesZeroMaps ==
    (pc \in {"grid_write", "raised", "returned"} /\ GridLen(grid) = 0) =>
        /\ err = "none"
        /\ gmap = ZeroGridMap(npix)
        /\ nmap = [r \in 0 .. (npix - 1) |-> [c \in 0 .. (npix - 1) |->
                      [k \in Planes |-> 0]]]

-----------------------------------------------------------------------------
(* Properties of the response lookups *)

\* Key and value columns of the table the called lookup reads.
CalledKeys ==
    IF call = "chan_to_e" THEN RmfChannels(resp.rmf)
    ELSE IF call = "e_to_aeff" THEN RespEchan(resp.arf)
    ELSE RespEchan(resp.mfact)

CalledValues ==
    IF call = "chan_to_e" THEN RmfEchan(resp.rmf)
    ELSE IF call = "e_to_aeff" THEN RespValues(resp.arf)
    ELSE RespValues(resp.mfact)

Matches(v) == {r \in 1 .. Len(CalledKeys) : CalledKeys[r] = v}

\* C9: a lookup of a list holding a value that equals no channel / bin centre
\* fails with an error; a lookup whose values all equal one returns, for each
\* value, the value of the matching row.
C9_LookupMissIsAnError ==
    (call # "none" /\ query.kind = "list" /\ Len(query.val) > 0) =>
        IF \E n \in 1 .. Len(query.val) : Matches(query.val[n]) = {}
        THEN pc = "raised"
        ELSE /\ pc = "returned"
             /\ \A n \in 1 .. Len(query.val) :
                    \E r \in Matches(query.val[n]) : ret[n] = <<CalledValues[r]>>

\* C10: a lookup called with one scalar that equals a channel / bin centre
\* returns the value of that row without raising.
C10_ScalarQueryAccepted ==
    (call # "none" /\ query.kind = "scalar" /\ Matches(query.val) # {}) =>
        /\ pc = "returned"
        /\ \E r \in Matches(query.val) : ret = <<CalledValues[r]>>

-----------------------------------------------------------------------------
(* Properties of MapMaker.__init__ *)

\* The data path of the object exists.
DataPathExists ==
    (IF args.data_path = None THEN GetDataPath ELSE args.data_path[1]) \in fs

\* __init__ has run and raised.
ConstructionFailed == pc = "raised" /\ calls = 0

\* __init__ has run and returned.
ConstructionCompleted == pc # "new" /\ ~ConstructionFailed

\* The loader on the object is the injected one if one was given, and
\* otherwise a Get_TOD built for the object's instrument and data path.
LoaderSet ==
    IF args.tod_loader # None
    THEN mm.tod_loader = args.tod_loader[1]
    ELSE /\ mm.tod_loader.kind = "Get_TOD"
         /\ mm.tod_loader.instrument = args.instrument
         /\ mm.tod_loader.data_path \in fs

\* C11 as stated: once __init__ has run, a missing data path means that it
\* raised and left no TOD loader on the object, and an existing data path
\* means that it completed with the TOD loader set.
C11_ExistingPathAlwaysCompletes ==
    pc # "new" =>
        IF DataPathExists
        THEN ConstructionCompleted /\ LoaderSet
        ELSE ConstructionFailed /\ mm.tod_loader = NoLoader

\* C11, amended: once __init__ has run, a missing data path means that it
\* raised and left no TOD loader on the object; an existing data path means
\* that it completed with the TOD loader set, unless the message about the
\* default background flux raised KeyError for an instrument that is neither
\* LFI nor HFI, and then no TOD loader is on the object either.
C11_MissingPathFailsBeforeLoader ==
    pc # "new" =>
        IF ~DataPathExists
        THEN /\ ConstructionFailed
             /\ err \in {"FileNotFoundError", "KeyError"}
             /\ mm.tod_loader = NoLoader
        ELSE IF BgMessageFails(args)
        THEN ConstructionFailed /\ err = "KeyError" /\ mm.tod_loader = NoLoader
        ELSE ConstructionCompleted /\ LoaderSet

\* A loader was injected, the data path is missing, and __init__ raised
\* FileNotFoundError with no loader stored.
C11_Witness ==
    /\ ~DataPathExists
    /\ args.tod_loader # None
    /\ pc = "raised"
    /\ err = "FileNotFoundError"
    /\ mm.tod_loader = NoLoader

-----------------------------------------------------------------------------
(* Properties of the binners' file names *)

\* A binner has set its map name.
MapNamed == mapname # ""

\* The grid binner is the one running (npix is 0 in a healpix call).
GridRunning == npix > 0

\* {frequency}GHz_{resolution}{mode}.fits, with _{split} after the mode when
\* a split is given.
SuffixedName(freq, resolution, mode, split) ==
    ToString(freq) \o "GHz_" \o ToString(resolution) \o mode
        \o (IF split # None THEN "_" \o split[1] ELSE "") \o ".fits"

\* C12: the map name a binner has set is {frequency}GHz_{resolution}{mode}.fits
\* with mode pix_grid for the grid binner and hpbinning for the healpix
\* binner, and with _{split} appended after the mode when a split is given.
C12_SplitIsSuffixAfterMode ==
    MapNamed =>
        mapname = IF GridRunning
                  THEN SuffixedName(callargs.freq, npix, "pix_grid", callargs.split)
                  ELSE SuffixedName(callargs.freq, nside, "hpbinning", callargs.split)

-----------------------------------------------------------------------------
(* Properties of the grid binner's output array *)

\* Plane k of a Stokes estimate.
StokesPlane(est, k) == [num |-> est.num[k + 1], den |-> est.den]

\* C13: in the array of the create_fits call, bmap.T, the estimate of the
\* cell with x-bin index i and y-bin index j is at row j, column i of each
\* of the planes I, Q, U.
C13_RowIsYBinColumnIsXBin ==
    GridBinned =>
        \A i \in 0 .. (npix - 1) : \A j \in 0 .. (npix - 1) : \A k \in Planes :
            Transposed(gmap, npix)[k][j][i] = StokesPlane(CellEstimate(grid, i, j), k)

-----------------------------------------------------------------------------
(* Properties of _bin_tod_healpix under a reordering of the samples *)

\* The maps after the sample loop has passed over samples s .. n of TOD t,
\* starting from the maps in acc; the loop stops at an index out of range.
RECURSIVE BinFrom(_, _, _, _)
BinFrom(t, ns, s, acc) ==
    IF s > Len(t.signal) \/ acc.err # "none" THEN acc
    ELSE IF SkipSample(t.pixels[s]) THEN BinFrom(t, ns, s + 1, acc)
    ELSE LET pix == NumpyIndex(t.pixels[s], NPixels(ns))
         IN  IF pix < 0 \/ \E k \in Planes : WeightAt(t.weights, s - 1, k) = <<>>
             THEN [acc EXCEPT !.err = "IndexError"]
             ELSE BinFrom(t, ns, s + 1,
                    [bmap |-> [acc.bmap EXCEPT ![pix] = [k \in Planes |->
                                  Accumulate(acc.bmap[pix][k], t.signal[s],
                                             WeightAt(t.weights, s - 1, k)[1])]],
                     nmap |-> [acc.nmap EXCEPT ![pix] = [k \in Planes |->
                                  CountHit(acc.nmap[pix][k], k)]],
                     err |-> "none"])

\* The maps _bin_tod_healpix computes from TOD t.
Binned(t, ns) ==
    BinFrom(t, ns, 1, [bmap |-> ZeroMap(ns), nmap |-> ZeroMap(ns), err |-> "none"])

SampleOrders(n) ==
    {f \in [1 .. n -> 1 .. n] : \A a, b \in 1 .. n : f[a] = f[b] => a = b}

\* TOD t with its samples reordered by f: signal, pixel and weight triple of
\* a sample move together.
PermuteTod(t, f) ==
    [signal |-> [s \in 1 .. Len(t.signal) |-> t.signal[f[s]]],
     pixels |-> [s \in 1 .. Len(t.signal) |-> t.pixels[f[s]]],
     weights |-> [k \in 1 .. Len(t.weights) |->
                    [s \in 1 .. Len(t.signal) |-> t.weights[k][f[s]]]]]

\* The pure rendering of the loop agrees with the run.
FoldAgreesWithRun ==
    HealpixBinned =>
        Binned(tod, nside) = [bmap |-> bmap, nmap |-> nmap, err |-> "none"]

\* C14: when the sample loop has finished, the binned map and the hits map
\* are the ones the binner computes from any reordering of the TOD's samples.
C14_MapsIndependentOfSampleOrder ==
    HealpixBinned =>
        \A f \in SampleOrders(NSamp) :
            /\ Binned(PermuteTod(tod, f), nside).bmap = bmap
            /\ Binned(PermuteTod(tod, f), nside).nmap = nmap

-----------------------------------------------------------------------------
(* Properties of a MapMaker across binner calls *)

\* A binner call is past its load: the loader's arrays are in hand.
BinnerLoaded == pc \in {"hp_loop", "hp_write", "grid_loop", "grid_write"}

\* C15: once the MapMaker is constructed no step of a binner call changes an
\* attribute of the object (the configuration fields and tod_loader), and
\* from the load to the end of a call no step changes the arrays the loader
\* returned (signal, pixels and weights; x, y, bin edges, signal, pixweights).
C15_BinnersLeaveConfigAndTodUnchanged ==
    [][ /\ (pc # "new" => mm' = mm)
        /\ (BinnerLoaded => tod' = tod /\ grid' = grid) ]_vars

\* The second call on one MapMaker, a grid call, has solved its cells from
\* a sample and the object is as construction left it.
C15_Witness ==
    /\ calls = 2
    /\ pc = "grid_write"
    /\ GridLen(grid) > 0
    /\ \E i \in 0 .. (npix - 1) : \E j \in 0 .. (npix - 1) : CellMask(grid, i, j) # {}
    /\ mm = Constructed(args)

\* The grid binner has called tod_ongrid.
OngridCalled == GridRunning /\ MapNamed

\* C16: when the MapMaker was constructed without coord, the coordinate
\* given to the Get_TOD it built and the coordinate given to tod_ongrid are
\* the Tau-A default of the coordinate system, never None.
C16_DefaultCoordReachesLoader ==
    args.coord = None =>
        /\ (mm.tod_loader.kind = "Get_TOD" =>
                mm.tod_loader.coord = TauA(args.coord_system)
                /\ mm.tod_loader.coord # None)
        /\ (OngridCalled =>
                ongrid.coord = TauA(args.coord_system) /\ ongrid.coord # None)

-----------------------------------------------------------------------------
(* Properties of filter_events *)

\* The rmf rows whose channel is the PI of event n.
PIMatches(n) ==
    {r \in 1 .. Len(resp.rmf) : resp.rmf[r].CHANNEL = events[n].PI}

\* Every event's PI channel matches exactly one row.
AllMatchOnce == \A n \in 1 .. Len(events) : Cardinality(PIMatches(n)) = 1

\* The energy of event n: the bin centre of the row its PI matches.
EventEnergy(n) ==
    LET r == CHOOSE q \in PIMatches(n) : TRUE
    IN  BinCentre(resp.rmf[r].E_MIN, resp.rmf[r].E_MAX)

InRange(n) == erange.min_energy <= EventEnergy(n) /\ EventEnergy(n) <= erange.max_energy

\* The events within the energy range, in input order.
RECURSIVE KeptUpTo(_)
KeptUpTo(n) ==
    IF n = 0 THEN <<>>
    ELSE KeptUpTo(n - 1) \o (IF InRange(n) THEN <<n>> ELSE <<>>)

\* The call returned a table whose row r holds, in all nine columns, the
\* values of the r-th event within the energy range.
RowsAligned ==
    LET kept == KeptUpTo(Len(events))
    IN  /\ pc = "returned"
        /\ \A c \in {"PI", "E", "X", "Y", "Q", "U", "W_MOM", "Aeff", "Modf"} :
               Len(filtered[c]) = Len(kept)
        /\ \A r \in 1 .. Len(kept) :
               /\ \A c \in {"PI", "X", "Y", "Q", "U", "W_MOM"} :
                      filtered[c][r] = events[kept[r]][c]
               /\ filtered.E[r] = EventEnergy(kept[r])
               /\ filtered.Aeff[r] =
                      RowsWhere(RespEchan(resp.arf), RespValues(resp.arf),
                                EventEnergy(kept[r]))
               /\ filtered.Modf[r] =
                      RowsWhere(RespEchan(resp.mfact), RespValues(resp.mfact),
                                EventEnergy(kept[r]))

\* C17: when every event's PI channel matches exactly one row, the call
\* returns the events with min_energy <= e <= max_energy in input order, and
\* row r of all nine columns comes from the same event.
C17_FilteredRowsAligned ==
    (pc # "filter_call" /\ AllMatchOnce) => RowsAligned

====
